---- MODULE Spec2Model ----
(***************************************************************************)
(* A model of fractran.py: the factorizer f_int, the FRACTRAN engine       *)
(* FractionGame (construction, run_step, run) and the register program     *)
(* that python_equivalent emits.                                           *)
(*                                                                         *)
(* Python values are modelled as follows.  An argument of the constructor  *)
(* is a record [t, v]: t is the Python type of the value ("int", "float",  *)
(* "str", "bool") and v its integer value when t = "int".  A fraction      *)
(* argument is a record [shape, items]: shape is the Python type of the    *)
(* container ("tuple", "list", or "int" for a bare number) and items the   *)
(* sequence of its elements.  A dict is a function from its keys to its    *)
(* values.  Sequences are 1-indexed: the source's N[0] is N[1] here and    *)
(* the source's fraction index i is i + 1 here; transitions stores the     *)
(* source's 0-based index.  The lines that run_step prints when verbose    *)
(* is set go to standard output and are not part of the state; what        *)
(* building them can raise is.                                             *)
(***************************************************************************)
EXTENDS Integers, Sequences, FiniteSets, TLC

VARIABLES
    pc,           \* "new": before __init__; "idle": between calls;
                  \* "run", "run_chk": inside the loop of run(); "failed": __init__ raised
    call,         \* the arguments of the constructor call: [args, N_0]
    attrs,        \* the attributes that exist on self
    f,            \* self.f: the program, a sequence of <<numerator, denominator>>
    N,            \* self.N: the trace
    transitions,  \* self.transitions
    registers,    \* self.registers
    max_steps,    \* the max_steps argument of the run() call in progress
    verbose,      \* the verbose argument of the run() call in progress
    last,         \* the operation that took the last step
    err,          \* the exception the last operation raised, or "none"
    ret,          \* the value the last operation returned
    ncalls,       \* the number of method calls made on the engine so far
    fint          \* an f_int object: [n, huge, built, factors, err]; the argument
                  \* of f_int(...) is n, or n * 2^1024 when huge is set; built tells
                  \* that __init__ has returned and err is the exception it
                  \* raised, or "none"

engine ==
    <<pc, call, attrs, f, N, transitions, registers, max_steps, verbose, last, err, ret, ncalls>>

vars == <<engine, fint>>

-----------------------------------------------------------------------------
(* Bounds of the model *)

\* f_int is built for 0..MaxFactorize
MaxFactorize == 60
\* at most this many method calls are made on a constructed engine
MaxCalls == 3
\* max_steps arguments of run() are 0, 1 and MaxSteps
MaxSteps == 11
\* max_steps arguments of python_equivalent() are 0..MaxEmitSteps
MaxEmitSteps == 1
\* starting values N_0 of the constructor are 0..MaxStart and 8, and LongStart
\* for the halving program
MaxStart == 3
\* starting values of run(N_0=...) are 0..MaxReset (0 is falsy: no reset)
MaxReset == 1

-----------------------------------------------------------------------------
(* f_int.factorize *)

Last(s) == s[Len(s)]

\* int(a**0.5) for a >= 0: the floor of the square root
RECURSIVE IsqrtFrom(_, _)
IsqrtFrom(a, r) == IF (r + 1) * (r + 1) > a THEN r ELSE IsqrtFrom(a, r + 1)

Isqrt(a) == IsqrtFrom(a, 0)

\* lines 15-18 and 21-24: count one more factor k
AddFactor(factors, k) ==
    IF k \notin DOMAIN factors
    THEN [x \in DOMAIN factors \cup {k} |-> IF x = k THEN 1 ELSE factors[x]]
    ELSE [factors EXCEPT ![k] = @ + 1]

\* lines 13-19: for i in range(2, hi + 1): while a % i == 0: ...; a //= i
\* the range is fixed from the original a; yields the remaining a and the factors
RECURSIVE TrialDivide(_, _, _, _)
TrialDivide(a, i, hi, factors) ==
    IF i > hi THEN [a |-> a, factors |-> factors]
    ELSE IF a % i = 0
         THEN TrialDivide(a \div i, i, hi, AddFactor(factors, i))
         ELSE TrialDivide(a, i + 1, hi, factors)

\* a**0.5 of a negative int is complex and int() of it raises TypeError
factorize_raises(a) == a < 0

\* line 13: a**0.5 converts the int a to a float before anything else, and an
\* int of magnitude 2^1024 or more is too large to convert: OverflowError,
\* whatever the sign.  The argument is n * 2^1024 when huge is set, else n
to_float_raises(n, huge) == huge /\ n # 0

EmptyDict == [x \in {} |-> 0]

\* lines 12-26, for a >= 0
factorize(a) ==
    LET r == TrialDivide(a, 2, Isqrt(a), EmptyDict)
    IN  IF r.a > 1 THEN AddFactor(r.factors, r.a) ELSE r.factors

\* lines 3-5: f_int.__init__ on the argument n (where a**0.5 is the exact
\* root) or n * 2^1024, which is n again for n = 0; an exception of factorize
\* leaves the object without factors
FIntInit ==
    /\ ~fint.built
    /\ fint.err = "none"
    /\ IF to_float_raises(fint.n, fint.huge)
       THEN fint' = [fint EXCEPT !.err = "OverflowError"]
       ELSE IF factorize_raises(fint.n)
       THEN fint' = [fint EXCEPT !.err = "TypeError"]
       ELSE fint' = [fint EXCEPT !.built = TRUE, !.factors = factorize(fint.n)]
    /\ UNCHANGED engine

-----------------------------------------------------------------------------
(* FractionGame.__init__ and get_registers *)

IntV(k) == [t |-> "int", v |-> k]
OtherV(ty) == [t |-> ty, v |-> 0]
TupleV(items) == [shape |-> "tuple", items |-> items]

\* lines 38-46: the check of one fraction argument, in the order of the code
frac_rejected(frac) ==
    IF frac.shape # "tuple" THEN TRUE
    ELSE IF Len(frac.items) # 2 THEN TRUE
    ELSE IF frac.items[1].t # "int" THEN TRUE
    ELSE frac.items[2].t # "int"

\* a faulty variant: the type of the starting value is not checked
init_rejects_fractions_only(args, N_0) == \E i \in 1..Len(args) : frac_rejected(args[i])

\* lines 36-46: whether validation raises RuntimeError
init_rejects(args, N_0) ==
    IF N_0.t # "int" THEN TRUE
    ELSE \E i \in 1..Len(args) : frac_rejected(args[i])

\* line 49: the program as pairs of ints
program_of(args) == [i \in 1..Len(args) |-> <<args[i].items[1].v, args[i].items[2].v>>]

\* lines 70-78: every prime of every numerator and denominator, each at 0
RECURSIVE registers_from(_, _, _)
registers_from(prog, i, regs) ==
    IF i > Len(prog) THEN regs
    ELSE LET keys == DOMAIN factorize(prog[i][1]) \cup DOMAIN factorize(prog[i][2])
         IN  registers_from(prog, i + 1, [x \in DOMAIN regs \cup keys |-> 0])

get_registers(prog) == registers_from(prog, 1, EmptyDict)

\* f_int(...) inside get_registers raises when an element is negative
get_registers_raises(prog) ==
    \E i \in 1..Len(prog) : factorize_raises(prog[i][1]) \/ factorize_raises(prog[i][2])

NoneV == [kind |-> "None"]

\* lines 35-52
Construct ==
    /\ pc = "new"
    /\ last' = "__init__"
    /\ ret' = NoneV
    /\ UNCHANGED <<fint, call, max_steps, verbose, ncalls>>
    /\ IF init_rejects(call.args, call.N_0)
       THEN /\ pc' = "failed"
            /\ err' = "RuntimeError"
            /\ UNCHANGED <<attrs, f, N, transitions, registers>>
       ELSE /\ f' = program_of(call.args)
            /\ N' = <<call.N_0.v>>
            /\ transitions' = <<>>
            /\ IF get_registers_raises(program_of(call.args))
               THEN /\ pc' = "failed"
                    /\ err' = "TypeError"
                    /\ attrs' = {"f", "N", "transitions"}
                    /\ UNCHANGED registers
               ELSE /\ pc' = "idle"
                    /\ err' = "none"
                    /\ attrs' = {"f", "N", "transitions", "registers"}
                    /\ registers' = get_registers(program_of(call.args))

-----------------------------------------------------------------------------
(* FractionGame.run_step *)

\* a faulty variant: the product is divided without the divisibility test, so the first
\* fraction always applies
RECURSIVE scan_truncating(_, _, _)
scan_truncating(prog, n, i) ==
    IF i > Len(prog) THEN [kind |-> "halt", index |-> 0, next |-> 0]
    ELSE IF prog[i][2] = 0 THEN [kind |-> "raise", index |-> i - 1, next |-> 0]
    ELSE [kind |-> "match", index |-> i - 1, next |-> (prog[i][1] * n) \div prog[i][2]]

\* a faulty variant: the scan stops one fraction early and never tries the last one
RECURSIVE scan_skips_last(_, _, _)
scan_skips_last(prog, n, i) ==
    IF i >= Len(prog) THEN [kind |-> "halt", index |-> 0, next |-> 0]
    ELSE IF prog[i][2] = 0 THEN [kind |-> "raise", index |-> i - 1, next |-> 0]
    ELSE IF (prog[i][1] * n) % prog[i][2] = 0
         THEN [kind |-> "match", index |-> i - 1, next |-> (prog[i][1] * n) \div prog[i][2]]
         ELSE scan_skips_last(prog, n, i + 1)

\* lines 132-145: the linear scan from fraction i on, for the current state n.
\* "match": fraction i applies (0-based index and next state); "halt": none
\* applies; "raise": the modulo by a zero denominator raises ZeroDivisionError
RECURSIVE scan(_, _, _)
scan(prog, n, i) ==
    IF i > Len(prog) THEN [kind |-> "halt", index |-> 0, next |-> 0]
    ELSE IF prog[i][2] = 0 THEN [kind |-> "raise", index |-> i - 1, next |-> 0]
    ELSE IF (prog[i][1] * n) % prog[i][2] = 0
         THEN [kind |-> "match", index |-> i - 1, next |-> (prog[i][1] * n) \div prog[i][2]]
         ELSE scan(prog, n, i + 1)

\* lines 139-140: with verbose > 0 the line printed for the fraction that
\* applies holds str(f_int(next_N)), built before the append of line 141;
\* f_int raises TypeError for a negative next_N
report_raises(r, v) == r.kind = "match" /\ v > 0 /\ factorize_raises(r.next)

\* lines 131-145: run_step(verbose=v) ends in an exception
run_step_raises(v) ==
    LET r == scan(f, Last(N), 1)
    IN  r.kind = "raise" \/ report_raises(r, v)

\* lines 131-145: the effect of one run_step(verbose=v) on N, transitions and err
run_step(v) ==
    LET r == scan(f, Last(N), 1)
    IN  IF r.kind = "raise"
        THEN /\ err' = "ZeroDivisionError"
             /\ UNCHANGED <<N, transitions>>
        ELSE IF report_raises(r, v)
        THEN /\ err' = "TypeError"
             /\ UNCHANGED <<N, transitions>>
        ELSE /\ err' = "none"
             /\ N' = Append(N, r.next)
             /\ transitions' = IF r.kind = "match"
                               THEN Append(transitions, r.index)
                               ELSE transitions

\* a direct call run_step(verbose=v)
RunStep(v) ==
    /\ pc = "idle"
    /\ ncalls < MaxCalls
    /\ ncalls' = ncalls + 1
    /\ run_step(v)
    /\ pc' = "idle"
    /\ last' = "run_step"
    /\ ret' = NoneV
    /\ UNCHANGED <<fint, call, attrs, f, registers, max_steps, verbose>>

-----------------------------------------------------------------------------
(* FractionGame.run *)

\* lines 149-150: if N_0: self.N = [N_0]   (None and 0 are both falsy)
reset_trace(trace, N_0) == IF N_0 # 0 THEN <<N_0>> ELSE trace

\* line 151: while self.N[-1] is not 0
loop_continues(trace) == Last(trace) # 0

\* a faulty variant: the budget forces a 1 onto the trace
cap_check_appends_one(trace, m) == IF Len(trace) + 1 > m THEN Append(trace, 1) ELSE trace

\* a faulty variant: the budget is never enforced
cap_check_never(trace, m) == trace

\* a faulty variant: the budget is enforced one entry early
cap_check_early(trace, m) == IF Len(trace) + 2 > m THEN Append(trace, 0) ELSE trace

\* lines 153-154: if len(self.N) + 1 > max_steps: self.N.append(0)
cap_check(trace, m) == IF Len(trace) + 1 > m THEN Append(trace, 0) ELSE trace

\* the call run(N_0=n0, verbose=v, max_steps=m), up to the first test of the loop
Run(n0, v, m) ==
    /\ pc = "idle"
    /\ ncalls < MaxCalls
    /\ ncalls' = ncalls + 1
    /\ pc' = "run"
    /\ N' = reset_trace(N, n0)
    /\ max_steps' = m
    /\ verbose' = v
    /\ last' = "run"
    /\ err' = "none"
    /\ ret' = NoneV
    /\ UNCHANGED <<fint, call, attrs, f, transitions, registers>>

\* lines 151-152: the loop test holds and run_step(verbose=verbose) is called;
\* an exception of run_step ends run(), and its arguments are gone
RunLoopStep ==
    /\ pc = "run"
    /\ loop_continues(N)
    /\ run_step(verbose)
    /\ IF run_step_raises(verbose)
       THEN /\ pc' = "idle"
            /\ max_steps' = 0
            /\ verbose' = 0
       ELSE /\ pc' = "run_chk"
            /\ UNCHANGED <<max_steps, verbose>>
    /\ UNCHANGED <<fint, call, attrs, f, registers, last, ret, ncalls>>

\* lines 153-154
RunCapCheck ==
    /\ pc = "run_chk"
    /\ N' = cap_check(N, max_steps)
    /\ pc' = "run"
    /\ UNCHANGED <<fint, call, attrs, f, transitions, registers, max_steps, verbose, last, err,
                   ret, ncalls>>

\* line 151 fails: run() returns (None) and its arguments are gone
RunReturn ==
    /\ pc = "run"
    /\ ~loop_continues(N)
    /\ pc' = "idle"
    /\ max_steps' = 0
    /\ verbose' = 0
    /\ UNCHANGED <<fint, call, attrs, f, N, transitions, registers, last, err, ret, ncalls>>

-----------------------------------------------------------------------------
(* FractionGame.python_equivalent: the text it emits *)

\* lines 88-91: registers[factor] = N_0_factors[factor] for every factor of N[0];
\* registers is self.registers itself (line 86), so the overlay is kept
overlay(regs, N_0_factors) ==
    [x \in DOMAIN regs \cup DOMAIN N_0_factors |->
        IF x \in DOMAIN N_0_factors THEN N_0_factors[x] ELSE regs[x]]

\* lines 106-112: the keyword that opens the branch of fraction i (1-based here)
branch_keyword(prog, i) ==
    IF i = 1 THEN "if"
    ELSE IF prog[i][2] = 1 THEN "else"
    ELSE "elif"

\* lines 99-119: the branch emitted for fraction i.  cond is the guard
\* (registers[p] >= cond[p] for every key, joined by &; an else has none),
\* clear is the body registers.clear(), otherwise the body subtracts sub and adds add
branch(prog, i) ==
    LET numerator == factorize(prog[i][1])
        denominator == factorize(prog[i][2])
        kw == branch_keyword(prog, i)
    IN  [kw |-> kw,
         index |-> i - 1,
         cond |-> IF kw = "else" THEN EmptyDict ELSE denominator,
         clear |-> prog[i][1] = 0,
         sub |-> IF prog[i][1] = 0 THEN EmptyDict ELSE denominator,
         add |-> IF prog[i][1] = 0 THEN EmptyDict ELSE numerator]

\* lines 102, 110, 121: endloop is reset for every fraction, so after the loop
\* it tells whether the LAST fraction was emitted as an else
endloop(prog) == branch_keyword(prog, Len(prog)) = "else"

\* lines 85-129: the emitted program, for a non-empty program
emitted(prog, regs, m) ==
    [kind |-> "text",
     init |-> regs,
     branches |-> [i \in 1..Len(prog) |-> branch(prog, i)],
     final_else |-> ~endloop(prog),
     max_steps |-> m]

\* line 121 reads endloop, which is unbound when the program has no fraction
python_equivalent_raises(prog) == Len(prog) = 0

\* the call python_equivalent(max_steps=m).  Line 88 builds f_int(self.N[0])
\* before anything is overlaid or emitted: for a negative N[0] its factorize
\* raises TypeError and self.registers is left as it was
PythonEquivalent(m) ==
    /\ pc = "idle"
    /\ ncalls < MaxCalls
    /\ ncalls' = ncalls + 1
    /\ pc' = "idle"
    /\ last' = "python_equivalent"
    /\ IF factorize_raises(N[1])
       THEN /\ registers' = registers
            /\ err' = "TypeError"
            /\ ret' = NoneV
       ELSE /\ registers' = overlay(registers, factorize(N[1]))
            /\ IF python_equivalent_raises(f)
               THEN /\ err' = "UnboundLocalError"
                    /\ ret' = NoneV
               ELSE /\ err' = "none"
                    /\ ret' = emitted(f, overlay(registers, factorize(N[1])), m)
    /\ UNCHANGED <<fint, call, attrs, f, N, transitions, max_steps, verbose>>

-----------------------------------------------------------------------------
(* The constructor calls the model starts from *)

Pair(num, den) == <<num, den>>

\* Conway's prime-generating program
PrimeGame ==
    << Pair(17, 91), Pair(78, 85), Pair(19, 51), Pair(23, 38), Pair(29, 33),
       Pair(77, 29), Pair(95, 23), Pair(77, 19), Pair(1, 17), Pair(11, 13),
       Pair(13, 11), Pair(15, 14), Pair(15, 2), Pair(55, 1) >>

Halve == << Pair(1, 2) >>

\* programs of valid fractions: numerator >= 0, denominator >= 1
Programs ==
    { << >>,
      Halve,
      PrimeGame,
      << Pair(1, 2), Pair(2, 1) >>,
      << Pair(1, 3), Pair(0, 1) >>,
      << Pair(3, 1), Pair(1, 2) >>,
      << Pair(5, 2), Pair(2, 1), Pair(1, 3) >>,
      << Pair(2, 4), Pair(1, 3) >>,
      << Pair(0, 3), Pair(1, 1) >>,
      << Pair(0, 3), Pair(5, 2) >> }

args_of(prog) == [i \in 1..Len(prog) |-> TupleV(<<IntV(prog[i][1]), IntV(prog[i][2])>>)]

RECURSIVE Pow(_, _)
Pow(b, e) == IF e = 0 THEN 1 ELSE b * Pow(b, e - 1)

\* the power of two from which [(1,2)] halts just inside the largest step cap
LongStart == Pow(2, MaxSteps - 3)

ValidCalls ==
    { [args |-> args_of(p), N_0 |-> IntV(s)] : p \in Programs, s \in 0..MaxStart \cup {8} }
        \cup { [args |-> args_of(Halve), N_0 |-> IntV(LongStart)] }

\* calls with an argument of a wrong type or shape, a negative element, a
\* zero denominator, or a negative starting value
OtherCalls ==
    { [args |-> args_of(Halve), N_0 |-> OtherV("float")],
      [args |-> args_of(Halve), N_0 |-> OtherV("bool")],
      [args |-> << >>, N_0 |-> OtherV("str")],
      [args |-> << [shape |-> "list", items |-> <<IntV(1), IntV(2)>>] >>, N_0 |-> IntV(2)],
      [args |-> << [shape |-> "int", items |-> << >>] >>, N_0 |-> IntV(2)],
      [args |-> << TupleV(<<IntV(1)>>) >>, N_0 |-> IntV(2)],
      [args |-> << TupleV(<<IntV(1), IntV(2), IntV(3)>>) >>, N_0 |-> IntV(2)],
      [args |-> << TupleV(<<OtherV("float"), IntV(2)>>) >>, N_0 |-> IntV(2)],
      [args |-> << TupleV(<<IntV(1), OtherV("str")>>) >>, N_0 |-> IntV(2)],
      [args |-> << TupleV(<<IntV(1), IntV(2)>>), TupleV(<<OtherV("bool"), IntV(2)>>) >>,
       N_0 |-> IntV(2)],
      [args |-> << TupleV(<<IntV(-1), IntV(2)>>) >>, N_0 |-> IntV(2)],
      [args |-> << TupleV(<<IntV(1), IntV(2)>>), TupleV(<<IntV(3), IntV(-2)>>) >>,
       N_0 |-> IntV(2)],
      [args |-> << TupleV(<<IntV(1), IntV(0)>>) >>, N_0 |-> IntV(2)],
      [args |-> << TupleV(<<IntV(1), IntV(2)>>), TupleV(<<IntV(3), IntV(0)>>) >>,
       N_0 |-> IntV(4)],
      [args |-> args_of(<< Pair(1, 5), Pair(5, 1) >>), N_0 |-> IntV(-10)],
      [args |-> << >>, N_0 |-> IntV(-6)] }

\* the max_steps arguments of run(): the two smallest and a large one
Budgets == {0, 1, MaxSteps}

\* the verbose arguments of run_step() and run(): silent, the step taken
\* (line 139), every fraction tried (line 134)
Verbosity == {0, 1, 2}

-----------------------------------------------------------------------------
(* The specifications *)

Unconstructed ==
    /\ pc = "new"
    /\ attrs = {}
    /\ f = << >>
    /\ N = << >>
    /\ transitions = << >>
    /\ registers = EmptyDict
    /\ max_steps = 0
    /\ verbose = 0
    /\ last = "none"
    /\ err = "none"
    /\ ret = NoneV
    /\ ncalls = 0

NoFInt == [n |-> 0, huge |-> FALSE, built |-> FALSE, factors |-> EmptyDict, err |-> "none"]

\* engines built from programs of valid fractions
Init == Unconstructed /\ call \in ValidCalls /\ fint = NoFInt

\* every constructor call
InitAny == Unconstructed /\ call \in ValidCalls \cup OtherCalls /\ fint = NoFInt

\* f_int(n) on its own, for the non-negative n = 0..MaxFactorize and for the
\* large n = k * 2^1024
InitFInt ==
    /\ Unconstructed
    /\ call = [args |-> << >>, N_0 |-> IntV(2)]
    /\ fint \in { [NoFInt EXCEPT !.n = k] : k \in 0..MaxFactorize }
                 \cup { [NoFInt EXCEPT !.n = k, !.huge = TRUE] : k \in 1..MaxFactorize }

Next ==
    \/ Construct
    \/ \E v \in Verbosity : RunStep(v)
    \/ \E n0 \in 0..MaxReset, v \in Verbosity, m \in Budgets : Run(n0, v, m)
    \/ RunLoopStep
    \/ RunCapCheck
    \/ RunReturn
    \/ \E m \in 0..MaxEmitSteps : PythonEquivalent(m)

Spec == Init /\ [][Next]_vars

SpecAny == InitAny /\ [][Next]_vars

SpecFInt == InitFInt /\ [][FIntInit]_vars

\* the engine without the synthesizer
NextEngine ==
    \/ Construct
    \/ \E v \in Verbosity : RunStep(v)
    \/ \E n0 \in 0..MaxReset, v \in Verbosity, m \in Budgets : Run(n0, v, m)
    \/ RunLoopStep
    \/ RunCapCheck
    \/ RunReturn

\* run() is one synchronous call: once entered, its loop runs on
FairSpec == Init /\ [][NextEngine]_vars /\ WF_vars(RunLoopStep) /\ WF_vars(RunCapCheck)
                /\ WF_vars(RunReturn)

-----------------------------------------------------------------------------
(* Properties of run_step and run *)

\* a step in which run_step() executes: a direct call, or the call in run()'s loop
StepTaken ==
    \/ pc = "idle" /\ pc' = "idle" /\ last' = "run_step" /\ ncalls' = ncalls + 1
    \/ pc = "run" /\ pc' = "run_chk"

\* fraction i (1-based) applies to the current state
Applicable(i) == (f[i][1] * Last(N)) % f[i][2] = 0

\* C1: one run_step() appends exactly one entry to N.  If some fraction has
\* (num * N[-1]) mod den = 0, the entry is the exact quotient (num * N[-1]) / den
\* for the first such fraction and its index is appended to transitions;
\* otherwise the entry is 0 and transitions is unchanged.
C1_RunStepFirstMatch ==
    [][StepTaken =>
        /\ Len(N') = Len(N) + 1
        /\ SubSeq(N', 1, Len(N)) = N
        /\ IF \E i \in 1..Len(f) : Applicable(i)
           THEN \E i \in 1..Len(f) :
                    /\ Applicable(i)
                    /\ \A j \in 1..(i - 1) : ~Applicable(j)
                    /\ Last(N') * f[i][2] = f[i][1] * Last(N)
                    /\ transitions' = Append(transitions, i - 1)
           ELSE /\ Last(N') = 0
                /\ transitions' = transitions]_vars

\* a direct run_step() has skipped fraction 0 and applied a later one
C1_Witness ==
    /\ pc = "idle"
    /\ last = "run_step"
    /\ Len(transitions) = ncalls
    /\ Last(transitions) > 0
    /\ Last(N) > 0

\* C2: every entry of the trace after a 0 is 0, in every state: neither
\* run_step() nor run() (whatever its max_steps) appends a nonzero value to a
\* trace that ends in 0.
C2_ZeroAbsorbing == \A i \in 1..(Len(N) - 1) : N[i] = 0 => N[i + 1] = 0

\* run() has returned leaving entries behind the first 0 of a trace that
\* started nonzero
C2_Witness ==
    /\ pc = "idle"
    /\ last = "run"
    /\ Len(N) >= 3
    /\ N[1] # 0
    /\ N[Len(N) - 1] = 0

\* C3: run() terminates, and returns with a trace ending in 0: a call in
\* progress leads to the return; each round of the loop appends one entry
\* and leaves the trace either ending in 0 or within the budget.
C3_RunTerminates ==
    /\ (pc \in {"run", "run_chk"}) ~> (pc = "idle" /\ Last(N) = 0)
    /\ [][(pc = "run" /\ pc' = "run_chk") => Len(N') = Len(N) + 1]_vars
    /\ [][(pc = "run_chk" /\ pc' = "run") =>
             (Last(N') = 0 \/ Len(N') + 1 <= max_steps)]_vars

\* run() has returned from a program that never halts by itself: every entry
\* but the forced 0 was produced by a fraction
C3_Witness ==
    /\ pc = "idle"
    /\ last = "run"
    /\ ncalls = 1
    /\ Len(N) > MaxSteps
    /\ Len(transitions) = Len(N) - 2
    /\ Last(N) = 0

LastDenominatorOne == Len(f) > 0 /\ f[Len(f)][2] = 1

\* C4 as claimed: with a last fraction of denominator 1 and a positive
\* starting state, run_step() never appends 0.
C4_Original ==
    [][(StepTaken /\ LastDenominatorOne /\ N[1] > 0) => Last(N') # 0]_vars

\* C4, amended: with a last fraction of denominator 1, run_step() always
\* applies a fraction (it records a transition and never takes the halt
\* branch), and the entry it appends is 0 only if the state was already 0 or
\* the fraction applied has numerator 0.
C4_NoNaturalHalt ==
    [][(StepTaken /\ LastDenominatorOne) =>
        /\ Len(transitions') = Len(transitions) + 1
        /\ Last(N') = 0 => (Last(N) = 0 \/ f[Last(transitions') + 1][1] = 0)]_vars

\* the last fraction, of denominator 1, was applied as the fallback
C4_Witness ==
    /\ LastDenominatorOne
    /\ Len(f) > 1
    /\ last = "run_step"
    /\ transitions # << >>
    /\ Last(transitions) = Len(f) - 1
    /\ Last(N) > 0

-----------------------------------------------------------------------------
(* The scenarios of the specification *)

\* run() was the first call on the engine and its loop has ended: it returns
FirstRunReturned == pc = "run" /\ ~loop_continues(N) /\ ncalls = 1

\* C5: for the program [(1,2)] and a starting state 2^k with k + 2 below the
\* step cap, run() leaves the trace [2^k, ..., 2, 1, 0] and k transitions, all
\* of index 0.
C5_HalveTrace ==
    \A k \in 0..MaxSteps :
        (FirstRunReturned /\ f = Halve /\ N[1] = Pow(2, k) /\ k + 2 < max_steps) =>
            /\ N = [i \in 1..(k + 2) |-> IF i = k + 2 THEN 0 ELSE Pow(2, k + 1 - i)]
            /\ transitions = [i \in 1..k |-> 0]

\* run() on [(1,2)] from 2^(MaxSteps-3) under the cap MaxSteps has halved its
\* way down to 1 and halted
C5_Witness ==
    /\ FirstRunReturned
    /\ f = Halve
    /\ call.N_0.v = LongStart
    /\ max_steps = MaxSteps
    /\ Len(N) = MaxSteps - 1
    /\ N[Len(N) - 2] = 2
    /\ N[Len(N) - 1] = 1
    /\ Last(N) = 0

\* the published sequence of the prime game from 2
Canonical == <<2, 15, 825, 725, 1925, 2275, 425, 390, 330, 290, 770>>

\* C6: for the prime game from 2, run() leaves a trace that ends in the forced
\* 0 and whose earlier entries are the terms of the published sequence; with
\* a cap of 5 or more it begins 2, 15, 825, 725, 1925.
C6_PrimeGameTrace ==
    (FirstRunReturned /\ f = PrimeGame /\ N[1] = 2) =>
        /\ Last(N) = 0
        /\ \A i \in 1..(Len(N) - 1) : i <= Len(Canonical) => N[i] = Canonical[i]
        /\ max_steps >= 5 => Len(N) > 5
        /\ Len(transitions) = Len(N) - 2

\* run() on the prime game has produced every term of the published sequence
C6_Witness ==
    /\ FirstRunReturned
    /\ f = PrimeGame
    /\ Len(N) > Len(Canonical)
    /\ N[5] = 1925
    /\ N[Len(Canonical)] = 770

-----------------------------------------------------------------------------
(* Construction *)

IsPairArg(frac) == frac.shape = "tuple" /\ Len(frac.items) = 2

\* the starting value is not an int, a fraction is not a 2-element tuple, or
\* an element of a fraction is not an int
BadCall ==
    \/ call.N_0.t # "int"
    \/ \E i \in 1..Len(call.args) : ~IsPairArg(call.args[i])
    \/ \E i \in 1..Len(call.args) :
          \E j \in 1..Len(call.args[i].items) : call.args[i].items[j].t # "int"

NoNegativeElement ==
    \A i \in 1..Len(call.args) :
        \A j \in 1..Len(call.args[i].items) : call.args[i].items[j].v >= 0

NoState == pc = "failed" /\ err # "none" /\ attrs = {}

Constructed ==
    /\ pc = "idle"
    /\ err = "none"
    /\ attrs = {"f", "N", "transitions", "registers"}
    /\ N = <<call.N_0.v>>
    /\ transitions = << >>
    /\ Len(f) = Len(call.args)
    /\ \A i \in 1..Len(f) :
          f[i] = <<call.args[i].items[1].v, call.args[i].items[2].v>>

\* C7 as claimed: construction fails and sets nothing on a bad call, and
\* succeeds in every other case.
C7_Original == last = "__init__" => IF BadCall THEN NoState ELSE Constructed

\* C7, amended: construction fails and sets nothing on a bad call; it
\* succeeds, with trace [N_0], no transitions and the program in argument
\* order, in every other case in which no numerator or denominator is negative.
C7_Construction ==
    last = "__init__" =>
        /\ BadCall => NoState
        /\ (~BadCall /\ NoNegativeElement) => Constructed

\* a call with an int starting value was rejected for one of its fractions
C7_Witness ==
    /\ last = "__init__"
    /\ call.N_0.t = "int"
    /\ BadCall
    /\ NoState

-----------------------------------------------------------------------------
(* The factorizer *)

IsPrime(p) == p > 1 /\ \A d \in 2..(p - 1) : p % d # 0

RECURSIVE Product(_)
Product(factors) ==
    IF DOMAIN factors = {} THEN 1
    ELSE LET p == CHOOSE x \in DOMAIN factors : TRUE
         IN  Pow(p, factors[p]) * Product([x \in DOMAIN factors \ {p} |-> factors[x]])

WellFormed(factors) ==
    \A p \in DOMAIN factors : IsPrime(p) /\ factors[p] >= 1

\* f_int(n) has ended, with a value or with an exception
FIntEnded == fint.built \/ fint.err # "none"

\* C8: for every non-negative n, factorize(n) returns without error a mapping
\* whose keys are prime, whose exponents are at least 1 and whose product is
\* n; the mapping is empty for n = 0 and n = 1.
C8_Factorize ==
    FIntEnded =>
        /\ fint.err = "none"
        /\ WellFormed(fint.factors)
        /\ Product(fint.factors) = fint.n
        /\ fint.n \in {0, 1} => fint.factors = EmptyDict

\* f_int(n) on an n of 2^1024 or more has ended in OverflowError
C8_Overflow ==
    /\ fint.n > 0
    /\ fint.huge
    /\ ~fint.built
    /\ fint.err = "OverflowError"

\* what the factorizer does deliver below 2^53, where a**0.5 is exact: it
\* returns, the keys are prime and the exponents at least 1, the product is n
\* for every n >= 1, and the mapping is empty for n = 1 and for n = 0
FactorizeInRange ==
    (FIntEnded /\ ~fint.huge) =>
        /\ fint.built
        /\ WellFormed(fint.factors)
        /\ fint.n >= 1 => Product(fint.factors) = fint.n
        /\ fint.n \in {0, 1} => fint.factors = EmptyDict

-----------------------------------------------------------------------------
(* The register set *)

Elements(prog) == { prog[i][j] : i \in 1..Len(prog), j \in 1..2 }

\* the primes that divide a numerator or a denominator of the program
ProgramPrimes(prog) ==
    { p \in UNION { 2..e : e \in Elements(prog) } :
        IsPrime(p) /\ \E e \in Elements(prog) : e # 0 /\ e % p = 0 }

\* C9: in every state of a constructed engine the keys of self.registers, and
\* the registers initialised in the text python_equivalent returned, are
\* exactly the primes that divide a numerator or denominator of the program.
C9_RegisterSet ==
    "registers" \in attrs =>
        /\ DOMAIN registers = ProgramPrimes(f)
        /\ ret.kind = "text" => DOMAIN ret.init = ProgramPrimes(f)

-----------------------------------------------------------------------------
(* The emitted program, run as Python runs it *)

RECURSIVE Sum(_)
Sum(regs) ==
    IF DOMAIN regs = {} THEN 0
    ELSE LET p == CHOOSE x \in DOMAIN regs : TRUE
         IN  regs[p] + Sum([x \in DOMAIN regs \ {p} |-> regs[x]])

\* lines 104-112: (registers[p] >= e) & ... ; with no condition the guard is
\* the empty tuple (), which is false
guard_holds(b, regs) ==
    /\ DOMAIN b.cond # {}
    /\ \A p \in DOMAIN b.cond : regs[p] >= b.cond[p]

\* lines 113-119: a body with no statement
body_empty(b) == ~b.clear /\ DOMAIN b.sub = {} /\ DOMAIN b.add = {}

\* lines 106-123: the text parses: nothing follows an else in the chain and
\* no body is empty
chain_valid(text) ==
    \A i \in 1..Len(text.branches) :
        /\ text.branches[i].kw = "else" => i = Len(text.branches)
        /\ ~body_empty(text.branches[i])

\* lines 106-123: the branch the chain takes, from branch i on: its position,
\* or 0 for the closing else of lines 122-123
RECURSIVE taken(_, _, _)
taken(text, regs, i) ==
    IF i > Len(text.branches) THEN 0
    ELSE IF text.branches[i].kw = "else" \/ guard_holds(text.branches[i], regs) THEN i
    ELSE taken(text, regs, i + 1)

Amount(d, p) == IF p \in DOMAIN d THEN d[p] ELSE 0

\* lines 113-119, 123: the body of branch i (0: the closing else)
body(text, regs, i) ==
    IF i = 0 \/ text.branches[i].clear THEN EmptyDict
    ELSE [p \in DOMAIN regs |->
            regs[p] - Amount(text.branches[i].sub, p) + Amount(text.branches[i].add, p)]

\* lines 95-128: one test of the while loop and, if it passes, one iteration.
\* ran: the iteration was executed; sel: the 0-based index of the fraction
\* whose branch ran (-1: the closing else); live: no break yet
loop_round(text, st) ==
    IF st.live /\ Sum(st.regs) > 0
    THEN LET i == taken(text, st.regs, 1)
         IN  [regs |-> body(text, st.regs, i),
              counter |-> st.counter + 1,
              live |-> ~(st.counter + 1 > text.max_steps),
              ran |-> TRUE,
              sel |-> i - 1]
    ELSE [regs |-> st.regs, counter |-> st.counter, live |-> FALSE,
          ran |-> FALSE, sel |-> -1]

\* the emitted program after k rounds
RECURSIVE rounds(_, _)
rounds(text, k) ==
    IF k = 0
    THEN [regs |-> text.init, counter |-> 0, live |-> TRUE, ran |-> FALSE, sel |-> -1]
    ELSE loop_round(text, rounds(text, k - 1))

Exponent(n, p) == Amount(factorize(n), p)

\* the register values are the prime exponents of n
Represents(regs, n) == \A p \in DOMAIN regs : regs[p] = Exponent(n, p)

\* C10: the emitted program simulates the engine step for step.  When the
\* text parses and its registers start as the prime exponents of N[0], for
\* every entry N[k] the engine produced from a nonzero N[k-1] (within the
\* emitted iteration cap):
\* if a fraction yielded a nonzero N[k], the k-th iteration runs, takes that
\* fraction's branch and leaves the prime exponents of N[k]; if the engine
\* halted, the loop has ended with all registers cleared.
C10_Simulation ==
    (ret.kind = "text" /\ chain_valid(ret) /\ N[1] > 0 /\ Represents(ret.init, N[1])) =>
        \A k \in 1..(Len(N) - 1) :
            LET e == scan(f, N[k], 1)
                st == rounds(ret, k)
            IN  (N[k] # 0 /\ N[k + 1] = e.next /\ k <= ret.max_steps + 1) =>
                    IF e.kind = "match" /\ e.next # 0
                    THEN /\ st.ran
                         /\ st.sel = e.index
                         /\ Represents(st.regs, N[k + 1])
                    ELSE /\ Sum(st.regs) = 0
                         /\ Sum(rounds(ret, k - 1).regs) > 0 => st.ran

-----------------------------------------------------------------------------
(* The shape of the emitted conditional chain *)

\* the keywords of the chain in the order they are emitted: one per fraction
\* (lines 106-112), then the closing else of lines 121-123 if it is emitted
Keywords(text) ==
    [i \in 1..Len(text.branches) |-> text.branches[i].kw]
        \o (IF text.final_else THEN << "else" >> ELSE << >>)

\* C11: the chain emitted by python_equivalent opens with an if, continues
\* with elif branches only, ends with the one else of the chain, and no
\* branch has an empty body.
C11_ChainWellFormed ==
    ret.kind = "text" =>
        LET kws == Keywords(ret)
        IN  /\ kws[1] = "if"
            /\ Last(kws) = "else"
            /\ \A i \in 2..(Len(kws) - 1) : kws[i] = "elif"
            /\ \A i \in 1..Len(ret.branches) : ~body_empty(ret.branches[i])

-----------------------------------------------------------------------------
(* The result and the bookkeeping of run *)

\* run() has returned to its caller without an error
RunReturned == pc = "idle" /\ last = "run" /\ err = "none"

\* C12: the value run() returns is the last entry of the trace.
C12_RunReturnsTerminal ==
    RunReturned => (ret.kind = "int" /\ ret.v = Last(N))

\* fraction i (1-based) of the program is the first one that applies to state n
FirstApplicableTo(n, i) ==
    /\ (f[i][1] * n) % f[i][2] = 0
    /\ \A j \in 1..(i - 1) : (f[j][1] * n) % f[j][2] # 0

\* C13: in every state of a constructed engine transitions is parallel to the
\* trace: it has at most len(N) - 1 entries, and its i-th entry is the index
\* of the first fraction applicable to the i-th entry of N, which that
\* fraction takes to the next entry of N.
C13_TransitionsParallel ==
    "registers" \in attrs =>
        /\ Len(transitions) <= Len(N) - 1
        /\ \A i \in 1..Len(transitions) :
              /\ i + 1 <= Len(N)
              /\ FirstApplicableTo(N[i], transitions[i] + 1)
              /\ N[i + 1] * f[transitions[i] + 1][2] = f[transitions[i] + 1][1] * N[i]

\* C14: run() keeps the trace within the step budget: it does not call
\* run_step() on a trace that already holds max_steps or more entries, and
\* when the loop of a run() on a fresh engine ends the trace holds at most
\* max_steps entries and then the closing 0.
C14_StepBudget ==
    /\ [][(pc = "run" /\ pc' = "run_chk") => Len(N) < max_steps]_vars
    /\ [](FirstRunReturned => (Last(N) = 0 /\ Len(N) - 1 <= max_steps))

-----------------------------------------------------------------------------
(* Special fractions in the emitted program *)

\* the registers hold the prime factors of the denominator of fraction i
\* (1-based); a denominator of 1 asks for nothing
Eligible(i, regs) ==
    \A p \in DOMAIN factorize(f[i][2]) : Amount(regs, p) >= factorize(f[i][2])[p]

\* the iterations of the emitted loop looked at: its cap allows max_steps + 1
EmittedRounds == 1..(ret.max_steps + 1)

\* C15: in the emitted program a fraction of denominator 1 is always
\* eligible, at the first position too: in every iteration in which no
\* earlier fraction is eligible its branch is the one that runs, and it adds
\* the prime exponents of the numerator to the registers.
C15_DenominatorOneBranch ==
    (ret.kind = "text" /\ chain_valid(ret)) =>
        \A k \in EmittedRounds :
            LET before == rounds(ret, k - 1).regs
                st == rounds(ret, k)
            IN  st.ran =>
                    \A i \in 1..Len(f) :
                        ( /\ f[i][2] = 1
                          /\ f[i][1] > 0
                          /\ \A j \in 1..(i - 1) : ~Eligible(j, before) ) =>
                            /\ st.sel = i - 1
                            /\ \A p \in DOMAIN before :
                                  st.regs[p] = before[p] + Exponent(f[i][1], p)

\* C16: in the emitted program a fraction of numerator 0 is always
\* applicable, as it is in the engine: in every iteration in which no earlier
\* branch is selected its branch is the one that runs, whatever the registers
\* hold, and it clears the registers.
C16_ZeroNumeratorBranch ==
    (ret.kind = "text" /\ chain_valid(ret)) =>
        \A k \in EmittedRounds :
            LET before == rounds(ret, k - 1).regs
                st == rounds(ret, k)
            IN  st.ran =>
                    \A i \in 1..Len(f) :
                        ( /\ f[i][1] = 0
                          /\ taken(ret, before, 1) \notin 1..(i - 1) ) =>
                            /\ st.sel = i - 1
                            /\ st.regs = EmptyDict

-----------------------------------------------------------------------------
(* The iteration cap of the emitted program *)

\* C17: the loop emitted by python_equivalent(max_steps=m) runs at most m
\* iterations: no iteration after the m-th is executed, and the counter the
\* program keeps never exceeds m.
C17_EmittedIterationCap ==
    (ret.kind = "text" /\ chain_valid(ret)) =>
        \A k \in 1..(ret.max_steps + 2) :
            /\ rounds(ret, k).ran => k <= ret.max_steps
            /\ rounds(ret, k).counter <= ret.max_steps

-----------------------------------------------------------------------------
(* python_equivalent as a function of the program, N[0] and max_steps *)

\* a step that is one call of python_equivalent()
EmitCall == pc = "idle" /\ last' = "python_equivalent" /\ ncalls' = ncalls + 1

\* C18: python_equivalent is pure code generation: the text it returns is
\* the text a newly constructed engine with the same program and the same
\* N[0] returns for the same max_steps, whatever calls came before, and the
\* call leaves the trace, the transitions, the program and the registers of
\* the engine as they were.
C18_PureGeneration ==
    /\ [](ret.kind = "text" =>
            ret = emitted(f, overlay(get_registers(f), factorize(N[1])), ret.max_steps))
    /\ [][EmitCall => /\ N' = N
                      /\ transitions' = transitions
                      /\ f' = f
                      /\ registers' = registers]_vars

-----------------------------------------------------------------------------
(* Accepted engines *)

\* C19: an engine that construction accepted holds only fractions with a
\* non-negative numerator and a positive denominator, and no run_step() on
\* it, called directly or by run(), ends in an error.
C19_AcceptedEnginesTotal ==
    (pc \notin {"new", "failed"} /\ "registers" \in attrs) =>
        /\ \A i \in 1..Len(f) : f[i][1] >= 0 /\ f[i][2] > 0
        /\ last \in {"run_step", "run"} => err = "none"

-----------------------------------------------------------------------------
(* The closing 0 of a run *)

\* C20: when run() returns on an engine that started from a positive state
\* and whose numerators are all positive, the trace holds exactly one 0, as
\* its last entry.
C20_SingleClosingZero ==
    (FirstRunReturned /\ N[1] > 0 /\ \A i \in 1..Len(f) : f[i][1] > 0) =>
        /\ Last(N) = 0
        /\ \A i \in 1..(Len(N) - 1) : N[i] # 0

====
